---- MODULE Spec2Model ----
(***************************************************************************)
(* Hubflo: inbound chat messages are classified, order details are         *)
(* collected over a multi-turn dialogue whose state lives in Task.text,    *)
(* and tasks move through an approval/completion lifecycle with an audit   *)
(* trail (src/app.py, src/storage.py).                                     *)
(*                                                                         *)
(* A text is a non-empty sequence of lines (what str.split("\n") yields);  *)
(* a line is a sequence of atoms (words and the punctuation ":").  The     *)
(* empty string is one empty line; None is the empty sequence.  Atoms      *)
(* carry no whitespace of their own, so whitespace is the line breaks.     *)
(***************************************************************************)
EXTENDS Integers, Sequences, FiniteSets, TLC

VARIABLES
  tasks,          \* the tasks table: id -> row
  audits,         \* the audits table, in insertion order
  nextId,         \* the tasks table's autoincrement counter
  now,            \* dt.datetime.utcnow(), in ticks
  ENABLE_BUTTONS, \* os.environ["ENABLE_BUTTONS"] == "1"
  SENDER_GLOBAL,  \* the module-level global read by classify_message
  resp,           \* what the last request returned to its caller
  nreq,           \* requests handled so far
  run,            \* the unbroken run of text answers of one sender
  pc, snap, op,   \* the concurrent handlers: position, rows read, request
  base,           \* the store and the global when the concurrent handlers began
  environ,        \* the pm_digest_<wa_id>_<date> keys set in os.environ
  wake,           \* per scheduler thread: the tick its sleep(60) ends
  alive,          \* per scheduler thread: the thread is still running
  emitted,        \* the digests the schedulers have sent, in order
  entered         \* per task: the last answer taken for each of the five fields

\* the state of the two digest scheduler threads
sched == <<environ, wake, alive, emitted>>

vars == <<tasks, audits, nextId, now, ENABLE_BUTTONS, SENDER_GLOBAL, resp,
          nreq, run, pc, snap, op, base, environ, wake, alive, emitted, entered>>

-----------------------------------------------------------------------------
(* Bounds *)

MaxTasks == 2
MaxOps == 3
MaxLifecycleTasks == 1
MaxLifecycleOps == 3
MaxDialogueMsgs == 6
MaxConcSetup == 2
MaxOverrunOps == 3
MaxOverrunRows == 6
MaxClock == 6
MaxDue == 2
MaxBypassMsgs == 3
MaxRestartMsgs == 3
MaxButtonMsgs == 3
MaxFieldMsgs == 7
MaxFieldTasks == 1
MaxEnvelopeLen == 2
MaxLiveOps == 2
MaxLiveClock == 4
MaxEnvelopeOps == 4
MaxEnvelopeTasks == 3
MaxDigestOps == 2
MaxDigests == 2
MaxDigestClock == 2
MaxEscalationOps == 2
MaxSendMsgs == 3
MaxClassifyMsgs == 2
MaxGlobalMsgs == 3
MaxNow == 1
TicksPerDay == 2

(* Program constants *)

AUTOFIX_ID == 97
NoTime == -1
SubDigestTick == 0
PmDigestTick == 1

Senders == {"s1", "s2"}
NoSender == "None"
NoneStr == "None"

\* the two scheduler threads started when the module is loaded
SchedKinds == {"sub", "pm"}

-----------------------------------------------------------------------------
(* Texts *)

NoText == <<>>
EmptyText == << <<>> >>

Truthy(t) == t # NoText /\ t # EmptyText

OrEmpty(t) == IF t = NoText THEN EmptyText ELSE t

Lower(a) ==
  CASE a = "Approve" -> "approve"
    [] a = "Item" -> "item"
    [] a = "Quantity" -> "quantity"
    [] a = "Supplier" -> "supplier"
    [] a = "Delivery Date" -> "delivery date"
    [] a = "Drop Location" -> "drop location"
    [] a = "STOCK NOTE" -> "stock note"
    [] OTHER -> a

LowerText(t) == [i \in 1..Len(t) |-> [j \in 1..Len(t[i]) |-> Lower(t[i][j])]]

\* a + b for two strings
Cat(a, b) ==
  SubSeq(a, 1, Len(a) - 1) \o << a[Len(a)] \o b[1] >> \o Tail(b)

\* str.strip(): leading and trailing whitespace goes
Strip(t) ==
  LET full == {i \in 1..Len(t) : t[i] # <<>>}
  IN IF full = {} THEN EmptyText
     ELSE LET lo == CHOOSE i \in full : \A j \in full : i <= j
              hi == CHOOSE i \in full : \A j \in full : j <= i
          IN SubSeq(t, lo, hi)

\* str.splitlines(): no empty last element
SplitLines(t) == IF t[Len(t)] = <<>> THEN SubSeq(t, 1, Len(t) - 1) ELSE t

HasNewline(t) == Len(t) > 1

\* t.split("\n", 1)[1]
AfterFirstNewline(t) == Tail(t)

OrderFlags == {"item", "quantity", "supplier", "delivery_date", "drop_location"}
StockFlags == {"stock_unit", "new_stock_unit", "new_stock_qty"}
AwaitFlags == OrderFlags \cup StockFlags

Marker(flag) ==
  CASE flag = "item" -> "[await:item]"
    [] flag = "quantity" -> "[await:quantity]"
    [] flag = "supplier" -> "[await:supplier]"
    [] flag = "delivery_date" -> "[await:delivery_date]"
    [] flag = "drop_location" -> "[await:drop_location]"
    [] flag = "stock_unit" -> "[await:stock_unit]"
    [] flag = "new_stock_unit" -> "[await:new_stock_unit]"
    [] flag = "new_stock_qty" -> "[await:new_stock_qty]"

MarkerAtoms == {Marker(f) : f \in AwaitFlags}

\* line.lower().startswith("[await:")
LineStartsAwait(l) == l # <<>> /\ Lower(l[1]) \in MarkerAtoms

\* Task.text.ilike("[await:%]%")
IsAwaitLike(t) == LineStartsAwait(t[1])

\* text.lower().startswith("[await:<flag>]")
StartsWithMarker(t, flag) == t[1] # <<>> /\ Lower(t[1][1]) = Marker(flag)

HasColon(l) == \E i \in 1..Len(l) : l[i] = ":"
ColonPos(l) == CHOOSE i \in 1..Len(l) : l[i] = ":" /\ \A j \in 1..(i - 1) : l[j] # ":"
KeyOf(l) == SubSeq(l, 1, ColonPos(l) - 1)
ValueOf(l) == SubSeq(l, ColonPos(l) + 1, Len(l))

\* _fields_from(task).get(key, ''): the last "key: value" line wins
FieldsGet(t, key) ==
  LET ls == SplitLines(t)
      hits == {i \in 1..Len(ls) :
                 ~LineStartsAwait(ls[i]) /\ HasColon(ls[i]) /\ KeyOf(ls[i]) = key}
  IN IF hits = {} THEN <<>>
     ELSE ValueOf(ls[CHOOSE i \in hits : \A j \in hits : j <= i])

\* f"{key}: {value}" for a one-line value
FieldLine(key, v) == <<key, ":">> \o v

\* phrase in t, for a phrase of whole words
ContainsPhrase(t, phrase) ==
  \E i \in 1..Len(t) : \E k \in 0..(Len(t[i]) - Len(phrase)) :
    \A j \in 1..Len(phrase) : Lower(t[i][k + j]) = phrase[j]

\* "<word> " in t: the word followed by a blank
ContainsWordBlank(t, w) ==
  \E i \in 1..Len(t) : \E k \in 1..(Len(t[i]) - 1) : Lower(t[i][k]) = w

\* t.startswith(phrase)
StartsWithPhrase(t, phrase) ==
  /\ Len(t[1]) >= Len(phrase)
  /\ \A j \in 1..Len(phrase) : Lower(t[1][j]) = phrase[j]


\* pairs <<atom, w>> with w a proper substring of the atom
Within == {<<"approved", "approve">>, <<"rejected", "reject">>,
           <<"reorder", "order">>, <<"restock", "stock">>}

\* w in t, for one word w
ContainsSub(t, w) ==
  \E i \in 1..Len(t) : \E k \in 1..Len(t[i]) :
    Lower(t[i][k]) = w \/ <<Lower(t[i][k]), w>> \in Within

\* re.search(r"\b<phrase>\b", t)
ContainsWords(t, phrase) == ContainsPhrase(t, phrase)

-----------------------------------------------------------------------------
(* The classifier *)

ChangePhrases == {<<"change", "the", "order">>, <<"change", "that", "order">>,
                  <<"change", "order">>, <<"change", "it", "to">>,
                  <<"change", "it">>}

order_phrases == {<<"get", "me">>, <<"grab">>, <<"order">>, <<"we", "need">>,
                  <<"bring">>, <<"drop">>, <<"deliver">>, <<"supplier">>,
                  <<"quantity">>, <<"delivery">>, <<"drop", "location">>}

Cls(tag, subtype, order_state) ==
  [tag |-> tag, subtype |-> subtype, order_state |-> order_state]

SelfPhrase(t) ==
  StartsWithPhrase(t, <<"i", "will">>) \/ StartsWithPhrase(t, <<"i'm", "going", "to">>)

\* the open-order lookup of classify_message, by the global sender
HasOpenOrder(tbl, who) ==
  \E i \in DOMAIN tbl :
    tbl[i].sender = who /\ tbl[i].status = "open" /\ tbl[i].tag = "order"

classify_message(text, tbl, who) ==
  LET t == Strip(LowerText(OrEmpty(text)))
  IN IF ContainsPhrase(t, <<"not", "an", "order">>)
          \/ ContainsPhrase(t, <<"just", "an", "update">>)
       THEN IF SelfPhrase(t) THEN Cls("task", "self", NoneStr)
            ELSE Cls("task", "assigned", NoneStr)
     ELSE IF \E p \in ChangePhrases : ContainsPhrase(t, p)
       THEN IF HasOpenOrder(tbl, who)
              THEN Cls("change", "assigned", "change_requested")
              ELSE Cls("task", "assigned", NoneStr)
     ELSE IF ContainsSub(t, "approve") THEN Cls("task", "assigned", "approve")
     ELSE IF ContainsSub(t, "reject") THEN Cls("task", "assigned", "reject")
     ELSE IF \E p \in order_phrases : ContainsWords(t, p)
       THEN Cls("order", "assigned", "requested")
     ELSE IF ContainsSub(t, "urgent") \/ ContainsSub(t, "asap")
       THEN Cls("urgent", "assigned", NoneStr)
     ELSE IF SelfPhrase(t) THEN Cls("task", "self", NoneStr)
     ELSE Cls("task", "assigned", NoneStr)

-----------------------------------------------------------------------------
(* The store: [tasks, audits, nextId], and the storage layer on it *)

Store(tbl, aud, nid) == [tasks |-> tbl, audits |-> aud, nextId |-> nid]

Terminal == {"approved", "rejected", "done"}

ORDER_LIFECYCLE_STATES ==
  {"quoted", "pending_approval", "approved", "cancelled", "invoiced", "enacted"}

\* a new Task row with the column defaults
NewTask(sender, text, tag, due_date, order_state, subtype) ==
  [sender |-> sender, text |-> OrEmpty(text), tag |-> tag, status |-> "open",
   due_date |-> due_date, completed_at |-> NoTime, approved_at |-> NoTime,
   rejected_at |-> NoTime, is_rework |-> FALSE, overrun_days |-> 0,
   order_state |-> order_state, subtype |-> subtype]

log_audit(st, actor, action, ref_id, details) ==
  [st EXCEPT !.audits = Append(@, [actor |-> actor, action |-> action,
                                   ref_id |-> ref_id, details |-> details])]

\* a create that writes no audit record
create_taskNoAudit(st, sender, text, tag, due_date, order_state, subtype) ==
  [st EXCEPT !.tasks = @ @@ (st.nextId :> NewTask(sender, text, tag, due_date,
                                                  order_state, subtype)),
             !.nextId = st.nextId + 1]

\* the row's id is st.nextId
create_task(st, sender, text, tag, due_date, order_state, subtype) ==
  LET id == st.nextId
      st1 == [st EXCEPT !.tasks = @ @@ (id :> NewTask(sender, text, tag, due_date,
                                                       order_state, subtype)),
                        !.nextId = id + 1]
  IN log_audit(st1, sender, "create", id, OrEmpty(text))

\* datetime.date(): the calendar day of a timestamp
DateOf(ts) == ts \div TicksPerDay

Max0(x) == IF x > 0 THEN x ELSE 0

MarkDoneRow(t, at) ==
  [t EXCEPT !.status = "done",
            !.completed_at = at,
            !.overrun_days = IF t.due_date # NoTime
                               THEN Max0(DateOf(at) - DateOf(t.due_date))
                               ELSE @]

mark_done(st, id, actor, at) ==
  IF id \notin DOMAIN st.tasks THEN st
  ELSE log_audit([st EXCEPT !.tasks[id] = MarkDoneRow(@, at)],
                 actor, "mark_done", id, NoneStr)

ApproveRow(t, at) == [t EXCEPT !.status = "approved", !.approved_at = at]

\* an approve that writes its audit record before looking the task up
approve_taskLogsUnknown(st, id, actor, at) ==
  log_audit(IF id \in DOMAIN st.tasks
              THEN [st EXCEPT !.tasks[id] = ApproveRow(@, at)] ELSE st,
            actor, "approve", id, NoneStr)

approve_task(st, id, actor, at) ==
  IF id \notin DOMAIN st.tasks THEN st
  ELSE log_audit([st EXCEPT !.tasks[id] = ApproveRow(@, at)],
                 actor, "approve", id, NoneStr)

\* a reject that does not store the rework flag
RejectRowKeepsRework(t, rework, at) ==
  [t EXCEPT !.status = "rejected", !.rejected_at = at]

RejectRow(t, rework, at) ==
  [t EXCEPT !.status = "rejected", !.is_rework = rework, !.rejected_at = at]

reject_task(st, id, rework, actor, at) ==
  IF id \notin DOMAIN st.tasks THEN st
  ELSE log_audit([st EXCEPT !.tasks[id] = RejectRow(@, rework, at)],
                 actor, "reject", id, IF rework THEN "rework=True" ELSE "rework=False")

SetOrderStateRow(t, state) == [t EXCEPT !.order_state = state]

set_order_state(st, id, state, actor) ==
  IF id \notin DOMAIN st.tasks THEN st
  ELSE log_audit([st EXCEPT !.tasks[id] = SetOrderStateRow(@, state)],
                 actor, "order_state", id, state)

\* a revoke that forgets the completion time
RevokeRowKeepsCompleted(t) ==
  [t EXCEPT !.status = "open", !.approved_at = NoTime, !.rejected_at = NoTime]

RevokeRow(t) ==
  [t EXCEPT !.status = "open", !.approved_at = NoTime, !.rejected_at = NoTime,
            !.completed_at = NoTime]

revoke_last(st, id, actor) ==
  IF id \notin DOMAIN st.tasks THEN st
  ELSE IF st.tasks[id].status \in Terminal
    THEN log_audit([st EXCEPT !.tasks[id] = RevokeRow(@)], actor, "revoke", id, NoneStr)
    ELSE st

edit_task_text(st, id, new_text, actor) ==
  IF id \notin DOMAIN st.tasks THEN st
  ELSE log_audit([st EXCEPT !.tasks[id].text = OrEmpty(new_text)],
                 actor, "task_edit_text", id, OrEmpty(new_text))

-----------------------------------------------------------------------------
(* The webhook: one inbound message, handled to its return *)

Msg(from, type, body, bid) == [from |-> from, type |-> type, body |-> body, bid |-> bid]

NoBid == [kind |-> "none", tid |-> 0]

\* what the handler leaves behind: the store, the global, the prompts sent
\* and the branch that returned
Handled(st, sg, sent, did) == [st |-> st, sg |-> sg, sent |-> sent, did |-> did]

ControlPhrases == {<<"change", "the", "order">>, <<"change", "that", "order">>,
                   <<"change", "order">>, <<"change", "it">>, <<"change", "it", "to">>}

\* the guard of the await chains: a control word anywhere in text.lower()
HasControlWord(text) ==
  \/ ContainsSub(LowerText(text), "approve")
  \/ ContainsSub(LowerText(text), "reject")
  \/ \E p \in ControlPhrases : ContainsPhrase(LowerText(text), p)

\* the order_item button: the marker goes in front of the whole text
MarkItemText(text) == Cat(<< <<Marker("item")>>, <<>> >>, OrEmpty(text))

MarkTextAlwaysItem(text, flag) ==
  LET body == IF HasNewline(text) THEN AfterFirstNewline(text) ELSE text
  IN Cat(<< <<Marker("item")>>, <<>> >>, body)

\* _mark: the marker replaces the first line
MarkText(text, flag) ==
  LET body == IF HasNewline(text) THEN AfterFirstNewline(text) ELSE text
  IN Cat(<< <<Marker(flag)>>, <<>> >>, body)

ButtonPrompt(flag) ==
  CASE flag = "item" -> "Great - what item should we order?"
    [] flag = "quantity" -> "Okay - what quantity do we need?"
    [] flag = "supplier" -> "Got it - who should we source this from?"
    [] flag = "delivery_date" -> "When must this be delivered?"
    [] flag = "drop_location" -> "Where should this be dropped on site?"

\* the ORDER BUTTONS block; the row is written without an audit record
OrderButton(st, bid) ==
  IF bid.tid \notin DOMAIN st.tasks THEN st
  ELSE IF bid.kind = "item"
    THEN [st EXCEPT !.tasks[bid.tid].text = MarkItemText(@)]
    ELSE [st EXCEPT !.tasks[bid.tid].text = MarkText(@, bid.kind)]

\* TEMP AUTO-FIX: task 97, when open, is closed on every message
AutoFix(st) ==
  IF AUTOFIX_ID \in DOMAIN st.tasks /\ st.tasks[AUTOFIX_ID].status = "open"
    THEN [st EXCEPT !.tasks[AUTOFIX_ID].status = "done",
                    !.tasks[AUTOFIX_ID].text = << <<"[autoclosed]">> >>]
    ELSE st

\* the awaiting query: the sender's newest open task whose text is [await:...]
AwaitingIds(tbl, sender) ==
  {i \in DOMAIN tbl :
     tbl[i].sender = sender /\ tbl[i].status = "open" /\ IsAwaitLike(tbl[i].text)}

NewestId(ids) == CHOOSE i \in ids : \A j \in ids : j <= i

ItemStepText(raw) == Cat(<< <<Marker("quantity")>>, <<"Item", ":">> >>, raw)

QuantityStepText(text, raw) ==
  LET body == IF HasNewline(text) THEN AfterFirstNewline(text) ELSE EmptyText
  IN Strip(Cat(Cat(Cat(<< <<Marker("supplier")>>, <<>> >>, body),
                   << <<>>, <<"Quantity", ":">> >>), raw))

SupplierStepText(text, raw) ==
  Cat(<< <<Marker("delivery_date")>>,
         FieldLine("Item", FieldsGet(text, <<"Item">>)),
         FieldLine("Quantity", FieldsGet(text, <<"Quantity">>)),
         <<"Supplier", ":">> >>, raw)

DeliveryStepText(text, raw) ==
  Cat(<< <<Marker("drop_location")>>,
         FieldLine("Item", FieldsGet(text, <<"Item">>)),
         FieldLine("Quantity", FieldsGet(text, <<"Quantity">>)),
         FieldLine("Supplier", FieldsGet(text, <<"Supplier">>)),
         <<"Delivery Date", ":">> >>, raw)

DropStepText(text, raw) ==
  Cat(<< FieldLine("Item", FieldsGet(text, <<"Item">>)),
         FieldLine("Quantity", FieldsGet(text, <<"Quantity">>)),
         FieldLine("Supplier", FieldsGet(text, <<"Supplier">>)),
         FieldLine("Delivery Date", FieldsGet(text, <<"Delivery Date">>)),
         <<"Drop Location", ":">> >>, raw)

\* int(raw_txt.strip()) succeeds
IsInt(raw) == Strip(raw) \in {<< <<"5">> >>}

\* the text after "material=" in an [await:new_stock_...] text
MaterialOf(text) ==
  LET l == text[1]
      at == {i \in 1..Len(l) : l[i] = "material="}
  IN IF at = {} THEN << <<"stock", "item">> >>
     ELSE LET k == CHOOSE i \in at : \A j \in at : i <= j
          IN Strip(<<SubSeq(l, k + 1, Len(l))>> \o Tail(text))

\* one step of the await chain on row t; the status it sets and the prompt
AwaitStep(t, raw) ==
  IF StartsWithMarker(t.text, "item")
    THEN [row |-> [t EXCEPT !.text = ItemStepText(raw)], sent |-> "Quantity?"]
  ELSE IF StartsWithMarker(t.text, "quantity")
    THEN [row |-> [t EXCEPT !.text = QuantityStepText(t.text, raw)],
          sent |-> "Supplier?"]
  ELSE IF StartsWithMarker(t.text, "supplier")
    THEN [row |-> [t EXCEPT !.text = SupplierStepText(t.text, raw)],
          sent |-> "Delivery date?"]
  ELSE IF StartsWithMarker(t.text, "delivery_date")
    THEN [row |-> [t EXCEPT !.text = DeliveryStepText(t.text, raw)],
          sent |-> "Drop location on site?"]
  ELSE IF StartsWithMarker(t.text, "drop_location")
    THEN [row |-> [t EXCEPT !.text = DropStepText(t.text, raw),
                            !.status = "pending_approval"],
          sent |-> "Order details captured. Awaiting PM approval."]
  ELSE IF StartsWithMarker(t.text, "stock_unit")
    \* the texts handled carry no number, so qty is None and stock is not adjusted
    THEN [row |-> [t EXCEPT !.text = Cat(<< <<"STOCK NOTE", ":">> >>, LowerText(raw)),
                            !.status = "done"],
          sent |-> "Noted - quantity missing, so stock not adjusted."]
  ELSE IF StartsWithMarker(t.text, "new_stock_unit")
    THEN [row |-> [t EXCEPT !.text = Cat(Cat(Cat(<< <<Marker("new_stock_qty"), "material=">> >>,
                                                 MaterialOf(t.text)),
                                             << <<";", "unit=">> >>),
                                         LowerText(raw)),
                            !.status = "open"],
          sent |-> "What opening quantity?"]
  ELSE IF IsInt(raw)
    THEN [row |-> [t EXCEPT !.text = Cat(<< <<"NEW STOCK ITEM", ":">> >>, Strip(raw)),
                            !.status = "done"],
          sent |-> "New stock item created."]
    ELSE [row |-> t, sent |-> "Please send a whole number for the opening quantity."]

is_new_stock_item_request(text) ==
  ContainsPhrase(LowerText(text), <<"add", "new", "stock", "item">>)

\* what follows "add new stock item" (after a ":" when the line has one)
parse_new_stock_item(text) ==
  LET t == LowerText(text)
      i == CHOOSE i \in 1..Len(t) :
             ContainsPhrase(<<t[i]>>, <<"add", "new", "stock", "item">>)
      k == CHOOSE k \in 0..(Len(t[i]) - 4) :
             SubSeq(t[i], k + 1, k + 4) = <<"add", "new", "stock", "item">>
      rest == SubSeq(t[i], k + 5, Len(t[i]))
      tail == IF HasColon(rest) THEN ValueOf(rest) ELSE rest
  IN Strip(<<tail>> \o SubSeq(t, i + 1, Len(t)))

verbs_add == <<"add", "added", "received", "put", "delivered", "stocked">>
verbs_remove == <<"take", "took", "use", "used", "deduct", "remove", "issue", "pull">>

\* parse_stock_command on a text without a number: the regular expression
\* (which starts with \d+) finds nothing, so the unit is asked for
parse_stock_command(text) ==
  LET t == LowerText(text)
      kind == IF \E i \in 1..Len(verbs_add) : ContainsWordBlank(t, verbs_add[i])
                THEN "add"
              ELSE IF \E i \in 1..Len(verbs_remove) : ContainsWordBlank(t, verbs_remove[i])
                THEN "remove"
              ELSE NoneStr
  IN IF ~ContainsSub(t, "stock") \/ kind = NoneStr
       THEN [kind |-> NoneStr, material |-> NoText, needs_prompt |-> FALSE]
       ELSE [kind |-> kind, material |-> t, needs_prompt |-> TRUE]

SearchBlankWords == {"search", "find"}
SearchPhrases == {<<"search", "for">>, <<"find", "all">>, <<"list", "all">>,
                  <<"show", "all">>, <<"show", "me", "all">>, <<"give", "me", "all">>,
                  <<"overrun", "jobs">>, <<"overrun", "work">>, <<"overdue", "jobs">>}

is_search_request(text) ==
  \/ \E w \in SearchBlankWords : ContainsWordBlank(LowerText(text), w)
  \/ \E p \in SearchPhrases : ContainsPhrase(LowerText(text), p)

MediaTypes == {"image", "document", "audio", "video"}

\* the FALLBACK CLASSIFIER block: the task is created, and an order either
\* gets the button checklist or is put into [await:item]
FallbackStaleSender(st, sg, buttons, sender, text) ==
  LET cls == classify_message(OrEmpty(text), st.tasks, sg)
      id == st.nextId
      st1 == create_task(st, sender, OrEmpty(text), cls.tag, NoTime,
                         cls.order_state, cls.subtype)
  IN IF cls.tag # "order" THEN Handled(st1, sender, <<>>, "create")
     ELSE IF buttons THEN Handled(st1, sender, <<"checklist">>, "create")
     ELSE Handled(IF StartsWithMarker(st1.tasks[id].text, "item") THEN st1
                  ELSE [st1 EXCEPT !.tasks[id].text = MarkItemText(@)],
                  sender, <<"Item?">>, "create")

Fallback(st, buttons, sender, text) ==
  LET cls == classify_message(OrEmpty(text), st.tasks, sender)
      id == st.nextId
      st1 == create_task(st, sender, OrEmpty(text), cls.tag, NoTime,
                         cls.order_state, cls.subtype)
  IN IF cls.tag # "order" THEN Handled(st1, sender, <<>>, "create")
     ELSE IF buttons THEN Handled(st1, sender, <<"checklist">>, "create")
     ELSE Handled(IF StartsWithMarker(st1.tasks[id].text, "item") THEN st1
                  ELSE [st1 EXCEPT !.tasks[id].text = MarkItemText(@)],
                  sender, <<"Item?">>, "create")

\* UPDATE ... WHERE id: the session writes the columns it changed on the row
\* it read, over whatever the table holds by then
Merge(cur, old, new) == [c \in DOMAIN cur |-> IF new[c] # old[c] THEN new[c] ELSE cur[c]]

\* the handler from the awaiting query on: view is the table the query read,
\* st the store the commit meets
HandleRest(st, view, sg, buttons, sender, text) ==
  LET aw == AwaitingIds(view, sender)
  IN IF Truthy(text) /\ ~HasControlWord(text) /\ aw # {}
       THEN LET id == NewestId(aw)
                step == AwaitStep(view[id], Strip(text))
            IN Handled([st EXCEPT !.tasks[id] = Merge(@, view[id], step.row)],
                       sg, <<step.sent>>, "await")
     ELSE IF Truthy(text) /\ is_new_stock_item_request(text)
       THEN Handled(create_task(st, sender,
                                Cat(<< <<Marker("new_stock_unit"), "material=">> >>,
                                    parse_new_stock_item(text)),
                                "stock", NoTime, NoneStr, "assigned"),
                    sg, <<"What unit?">>, "new_stock")
     ELSE IF Truthy(text) /\ parse_stock_command(text).needs_prompt
       THEN Handled(create_task(st, sender,
                                Cat(<< <<Marker("stock_unit"),
                                         IF parse_stock_command(text).kind = "add"
                                           THEN "kind=add" ELSE "kind=remove",
                                         ";", "qty=None", ";", "material=">> >>,
                                    parse_stock_command(text).material),
                                "stock", NoTime, NoneStr, "assigned"),
                    sg, <<"Which unit?">>, "stock")
     ELSE IF Truthy(text) /\ is_search_request(text)
       THEN Handled(st, sg, <<"search">>, "search")
     ELSE Fallback(st, buttons, sender, text)

HandleMsgStaleSender(st, sg, buttons, contact, m) ==
  LET sender == IF m.from # NoSender THEN m.from ELSE contact
  IN IF m.type = "interactive" /\ m.bid.kind \in OrderFlags
       THEN Handled(OrderButton(st, m.bid), sg, <<ButtonPrompt(m.bid.kind)>>, "button")
     ELSE
       LET text == IF m.type \in {"text"} \cup MediaTypes THEN m.body ELSE NoText
           st1 == AutoFix(st)
           h == HandleRest(st1, st1.tasks, sg, buttons, sender, text)
       IN IF h.did = "create"
            THEN FallbackStaleSender(st1, sg, buttons, sender, text)
          ELSE h

\* the body of "for m in msgs" for one message m
HandleMsg(st, sg, buttons, contact, m) ==
  LET sender == IF m.from # NoSender THEN m.from ELSE contact
  IN IF m.type = "interactive" /\ m.bid.kind \in OrderFlags
       THEN Handled(OrderButton(st, m.bid), sg, <<ButtonPrompt(m.bid.kind)>>, "button")
     ELSE
       LET text == IF m.type \in {"text"} \cup MediaTypes THEN m.body ELSE NoText
           st1 == AutoFix(st)
       IN HandleRest(st1, st1.tasks, sg, buttons, sender, text)

-----------------------------------------------------------------------------
(* What the model reads off a row *)

FieldKeys == <<"Item", "Quantity", "Supplier", "Delivery Date", "Drop Location">>

\* the text the last dialogue step leaves: the five "key: value" lines
IsCaptured(text) ==
  /\ ~IsAwaitLike(text)
  /\ Len(text) >= 5
  /\ \A i \in 1..5 : Len(text[i]) >= 2 /\ text[i][1] = FieldKeys[i] /\ text[i][2] = ":"

\* the dialogue state a row's text encodes
DialogueState(t) ==
  IF StartsWithMarker(t.text, "item") THEN "awaiting_item"
  ELSE IF StartsWithMarker(t.text, "quantity") THEN "awaiting_quantity"
  ELSE IF StartsWithMarker(t.text, "supplier") THEN "awaiting_supplier"
  ELSE IF StartsWithMarker(t.text, "delivery_date") THEN "awaiting_delivery_date"
  ELSE IF StartsWithMarker(t.text, "drop_location") THEN "awaiting_drop_location"
  ELSE IF IsCaptured(t.text) THEN "captured"
  ELSE "none"

ActiveStates == {"awaiting_item", "awaiting_quantity", "awaiting_supplier",
                 "awaiting_delivery_date", "awaiting_drop_location"}

\* the place in FieldKeys of the field a dialogue state waits for
FieldIndex(d) ==
  CASE d = "awaiting_item" -> 1
    [] d = "awaiting_quantity" -> 2
    [] d = "awaiting_supplier" -> 3
    [] d = "awaiting_delivery_date" -> 4
    [] d = "awaiting_drop_location" -> 5
    [] OTHER -> 0

-----------------------------------------------------------------------------
(* Inputs *)

T_ORDER == << <<"order", "pipe">> >>
T_PIPE == << <<"pipe">> >>
T_TIME == << <<"10", ":", "30">> >>
T_MULTI == << <<"pipe">>, <<"20mm">> >>
T_APPROVE == << <<"Approve">> >>
T_STOCK == << <<"add", "cement", "to", "stock">> >>
T_NEWSTOCK == << <<"add", "new", "stock", "item", "cement">> >>
T_FIND == << <<"find", "pipe">> >>
T_FIVE == << <<"5">> >>
T_CHANGE == << <<"change", "order", "to", "pipe">> >>
T_APPROVE_STOCK == << <<"approve", "add", "cement", "to", "stock">> >>
T_HASH == << <<"#", "order", "pipe">> >>
T_HASH_URGENT == << <<"urgent", "#", "order", "pipe">> >>
T_HASH_APPROVE == << <<"approve", "#", "order", "pipe">> >>
T_CHANGE_30M == << <<"change", "the", "order", "to", "30m">> >>
T_20M == << <<"20m", "cable">> >>
T_20M_URGENT == << <<"urgent", "20m", "cable">> >>
T_APPROVE_ORDER == << <<"approve", "order", "pipe", "urgent">> >>
T_REJECT_DELIVERY == << <<"reject", "delivery", "asap">> >>
T_APPROVE_UPDATE == << <<"approve", "just", "an", "update">> >>

InTexts == {T_ORDER, T_PIPE, T_APPROVE, T_STOCK, T_NEWSTOCK, T_FIND, T_FIVE}
DialogueTexts == {T_ORDER, T_PIPE, T_TIME, T_MULTI, T_APPROVE}

TaskIdInputs == DOMAIN tasks \cup {nextId}

Procs == {"p1", "p2"}

NoRun == [sender |-> NoSender, tids |-> {}, answers |-> <<>>]

Idle == [p \in Procs |-> "idle"]
NoSnap == [p \in Procs |-> <<>>]
NoOp == [p \in Procs |-> [kind |-> "none", id |-> 0, sender |-> NoSender, text |-> NoText]]
NoBase == [st |-> Store(<<>>, <<>>, 0), sg |-> NoSender]

-----------------------------------------------------------------------------
(* The sequential system: every request runs to its return *)

Init ==
  /\ tasks = <<>>
  /\ audits = <<>>
  /\ nextId \in {1, AUTOFIX_ID}
  /\ now = 0
  /\ ENABLE_BUTTONS \in BOOLEAN
  /\ SENDER_GLOBAL = NoSender
  /\ resp = [op |-> "none", id |-> 0, code |-> 0, sent |-> <<>>, did |-> "none"]
  /\ nreq = 0
  /\ run = NoRun
  /\ pc = Idle
  /\ snap = NoSnap
  /\ op = NoOp
  /\ base = NoBase
  /\ environ = {}
  /\ wake = [k \in SchedKinds |-> 0]
  /\ alive = [k \in SchedKinds |-> TRUE]
  /\ emitted = <<>>
  /\ entered = <<>>

\* how far a specification lets the system go: requests handled, rows held
Lim(ops, rows) == [ops |-> ops, rows |-> rows]

Commit(st, lim) ==
  /\ nreq < lim.ops
  /\ Cardinality(DOMAIN st.tasks) <= lim.rows
  /\ tasks' = st.tasks
  /\ audits' = st.audits
  /\ nextId' = st.nextId
  /\ nreq' = nreq + 1

Here == Store(tasks, audits, nextId)

\* the run of answers after message m: it starts at a task in awaiting_item
\* and goes on while the same sender sends text without a control word
RunAfter(m) ==
  IF m.type = "text" /\ Truthy(m.body) /\ ~HasControlWord(m.body)
    THEN IF run.sender = m.from /\ Len(run.answers) < 5
           THEN [run EXCEPT !.answers = Append(@, m.body)]
         ELSE LET tids == {i \in DOMAIN tasks :
                             /\ tasks[i].sender = m.from
                             /\ DialogueState(tasks[i]) = "awaiting_item"}
              IN IF tids # {}
                   THEN [sender |-> m.from, tids |-> tids, answers |-> <<m.body>>]
                   ELSE NoRun
    ELSE NoRun

ButtonKinds == OrderFlags \cup {"other"}

\* POST /webhook with one message: what the handler does to the program
WebhookDo(m, lim) ==
  /\ LET h == HandleMsg(Here, SENDER_GLOBAL, ENABLE_BUTTONS, NoSender, m)
     IN /\ Commit(h.st, lim)
        /\ SENDER_GLOBAL' = h.sg
        /\ resp' = [op |-> "webhook", id |-> 0, code |-> 200, sent |-> h.sent,
                    did |-> h.did]
  /\ run' = RunAfter(m)
  /\ UNCHANGED <<now, ENABLE_BUTTONS, pc, snap, op, base, sched>>

\* POST /webhook with one message
Webhook(m, lim) == WebhookDo(m, lim) /\ UNCHANGED entered

WebhookText(who, texts, lim) ==
  \E s \in who, x \in texts : Webhook(Msg(s, "text", x, NoBid), lim)

WebhookButton(who, kinds, lim) ==
  \E s \in who, k \in kinds, tid \in TaskIdInputs :
    Webhook(Msg(s, "interactive", NoText, [kind |-> k, tid |-> tid]), lim)

\* a message type that carries no text (a location, a sticker)
WebhookOther(who, lim) ==
  \E s \in who : Webhook(Msg(s, "location", NoText, NoBid), lim)

Api(st, name, id, code, lim) ==
  /\ Commit(st, lim)
  /\ resp' = [op |-> name, id |-> id, code |-> code, sent |-> <<>>, did |-> name]
  /\ run' = NoRun
  /\ UNCHANGED <<now, ENABLE_BUTTONS, SENDER_GLOBAL, pc, snap, op, base, sched, entered>>

Found(id) == IF id \in DOMAIN tasks THEN 200 ELSE 404

\* storage.create_task called directly, with or without a due date
CreateTask(lim) ==
  \E s \in Senders, tag \in {"task", "order"}, due \in {NoTime, 0} :
    Api(create_task(Here, s, T_PIPE, tag, due, NoneStr, "assigned"),
        "create_task", nextId, 200, lim)

\* storage.mark_done
MarkDone(lim) ==
  \E id \in TaskIdInputs :
    Api(mark_done(Here, id, "admin", now), "mark_done", id, Found(id), lim)

\* POST /admin/approve, with or without a note
api_approve(lim) ==
  \E id \in TaskIdInputs, note \in BOOLEAN :
    LET st == approve_task(Here, id, "admin", now)
    IN Api(IF note /\ id \in DOMAIN tasks
             THEN log_audit(st, "admin", "approve_note", id, "note") ELSE st,
           "approve", id, Found(id), lim)

\* POST /admin/reject
api_reject(lim) ==
  \E id \in TaskIdInputs, rework \in BOOLEAN :
    Api(reject_task(Here, id, rework, "admin", now), "reject", id, Found(id), lim)

\* POST /admin/revoke, with or without a note
api_revoke(lim) ==
  \E id \in TaskIdInputs, note \in BOOLEAN :
    LET st == revoke_last(Here, id, "admin")
    IN Api(IF note /\ id \in DOMAIN tasks
             THEN log_audit(st, "admin", "revoke_note", id, "note") ELSE st,
           "revoke", id, Found(id), lim)

\* POST /admin/order_state
api_order_state(lim) ==
  \E id \in TaskIdInputs, state \in {"approved", "enacted", "bogus"} :
    IF state \notin ORDER_LIFECYCLE_STATES
      THEN Api(Here, "order_state", id, 400, lim)
      ELSE Api(set_order_state(Here, id, state, "admin"), "order_state", id,
               Found(id), lim)

\* POST /admin/task/edit
admin_task_edit(lim) ==
  \E id \in TaskIdInputs :
    Api(edit_task_text(Here, id, T_PIPE, "admin"), "task_edit_text", id, 200, lim)

Tick ==
  /\ now < MaxNow
  /\ now' = now + 1
  /\ UNCHANGED <<tasks, audits, nextId, ENABLE_BUTTONS, SENDER_GLOBAL, resp, nreq,
                 run, pc, snap, op, base, sched, entered>>

SpecLim == Lim(MaxOps, MaxTasks)

Next ==
  \/ WebhookText(Senders, InTexts, SpecLim)
  \/ WebhookButton({"s1"}, ButtonKinds, SpecLim)
  \/ WebhookOther(Senders, SpecLim)
  \/ CreateTask(SpecLim)
  \/ MarkDone(SpecLim)
  \/ api_approve(SpecLim)
  \/ api_reject(SpecLim)
  \/ api_revoke(SpecLim)
  \/ api_order_state(SpecLim)
  \/ admin_task_edit(SpecLim)
  \/ Tick

Spec == Init /\ [][Next]_vars

(* The storage layer and the admin API alone *)

LifecycleLim == Lim(MaxLifecycleOps, MaxLifecycleTasks)

LifecycleNext ==
  \/ CreateTask(LifecycleLim)
  \/ MarkDone(LifecycleLim)
  \/ api_approve(LifecycleLim)
  \/ api_reject(LifecycleLim)
  \/ api_revoke(LifecycleLim)
  \/ api_order_state(LifecycleLim)
  \/ admin_task_edit(LifecycleLim)
  \/ Tick

LifecycleSpec == Init /\ [][LifecycleNext]_vars

(* The webhook alone: the dialogue of the senders *)

DialogueLim == Lim(MaxDialogueMsgs, MaxTasks)

DialogueNext ==
  \/ WebhookText({"s1"}, DialogueTexts, DialogueLim)
  \/ WebhookButton({"s1"}, {"item"}, DialogueLim)

DialogueSpec == Init /\ [][DialogueNext]_vars

(* Due dates and completion days: tasks made with a due date or seeded *)

SeedSenders == <<"sub_paint", "sub_paint", "sub_plumb", "sub_plumb", "sub_misc">>
SeedTags == <<"task", "task", "task", "task", "urgent">>
SeedOverrun == <<0, 0, 0, 4, 0>>

\* the k-th row /admin/test_seed inserts: open, no due date, no order_state
SeedRow(k) ==
  [NewTask(SeedSenders[k], << <<"seed", SeedTags[k]>> >>, SeedTags[k], NoTime,
           NoneStr, NoneStr)
     EXCEPT !.overrun_days = SeedOverrun[k]]

\* GET /admin/test_seed: five example tasks go in with one commit, no audit
admin_test_seed(lim) ==
  LET n == Len(SeedSenders)
      rows == [i \in nextId..(nextId + n - 1) |-> SeedRow(i - nextId + 1)]
  IN Api(Store(tasks @@ rows, audits, nextId + n), "test_seed", 0, 200, lim)

\* storage.create_task with a due date before, at or after the clock
CreateDue(lim) ==
  \E due \in {NoTime} \cup 0..MaxDue :
    Api(create_task(Here, "s1", T_PIPE, "task", due, NoneStr, "assigned"),
        "create_task", nextId, 200, lim)

Elapse ==
  /\ now < MaxClock
  /\ now' = now + 1
  /\ UNCHANGED <<tasks, audits, nextId, ENABLE_BUTTONS, SENDER_GLOBAL, resp, nreq,
                 run, pc, snap, op, base, sched, entered>>

OverrunLim == Lim(MaxOverrunOps, MaxOverrunRows)

OverrunNext ==
  \/ CreateDue(OverrunLim)
  \/ admin_test_seed(OverrunLim)
  \/ MarkDone(OverrunLim)
  \/ Elapse

OverrunSpec == Init /\ [][OverrunNext]_vars

(* The webhook alone, with control words among the texts *)

BypassTexts == {T_ORDER, T_PIPE, T_APPROVE, T_CHANGE, T_APPROVE_STOCK}

BypassLim == Lim(MaxBypassMsgs, MaxTasks)

BypassNext == WebhookText({"s1"}, BypassTexts, BypassLim)

BypassSpec == Init /\ [][BypassNext]_vars

\* The process stops and starts again between two requests: the module is
\* loaded anew, the database file and the environment stay.
Restart ==
  /\ SENDER_GLOBAL' = NoSender
  /\ environ' = {}
  /\ wake' = [k \in SchedKinds |-> now]
  /\ alive' = [k \in SchedKinds |-> TRUE]
  /\ UNCHANGED <<tasks, audits, nextId, now, ENABLE_BUTTONS, resp, nreq, run,
                 pc, snap, op, base, emitted, entered>>

RestartTexts == {T_ORDER, T_PIPE, T_CHANGE}

RestartLim == Lim(MaxRestartMsgs, MaxTasks)

RestartNext ==
  \/ WebhookText(Senders, RestartTexts, RestartLim)
  \/ Restart

RestartSpec == Init /\ [][RestartNext]_vars

\* The checklist buttons next to the free-text dialogue.
ButtonTexts == {T_ORDER, T_PIPE}

ButtonLim == Lim(MaxButtonMsgs, MaxTasks)

ButtonNext ==
  \/ WebhookText({"s1"}, ButtonTexts, ButtonLim)
  \/ WebhookButton(Senders, ButtonKinds, ButtonLim)

ButtonSpec == Init /\ [][ButtonNext]_vars

\* The checklist buttons in the middle of a dialogue, with a record of what
\* the sender answered for each field.
NoAnswers == [k \in 1..5 |-> NoText]

\* the record after message m: a text the handler takes as the answer of an
\* order task in awaiting_X is the last answer for field X of that task
EnteredAfter(m) ==
  LET h == HandleMsg(Here, SENDER_GLOBAL, ENABLE_BUTTONS, NoSender, m)
      ids == AwaitingIds(AutoFix(Here).tasks, m.from)
  IN IF m.type = "text" /\ h.did = "await" /\ ids # {}
          /\ DialogueState(tasks[NewestId(ids)]) \in ActiveStates
       THEN LET i == NewestId(ids)
                k == FieldIndex(DialogueState(tasks[i]))
                was == IF i \in DOMAIN entered THEN entered[i] ELSE NoAnswers
            IN (i :> [was EXCEPT ![k] = Strip(m.body)]) @@ entered
       ELSE entered

WebhookRecorded(m, lim) == WebhookDo(m, lim) /\ entered' = EnteredAfter(m)

FieldTexts == {T_ORDER, T_PIPE}

FieldLim == Lim(MaxFieldMsgs, MaxFieldTasks)

FieldNext ==
  \/ \E x \in FieldTexts : WebhookRecorded(Msg("s1", "text", x, NoBid), FieldLim)
  \/ \E k \in OrderFlags, tid \in DOMAIN tasks :
       WebhookRecorded(Msg("s1", "interactive", NoText, [kind |-> k, tid |-> tid]),
                       FieldLim)

FieldSpec == Init /\ [][FieldNext]_vars

\* One POST /webhook whose envelope carries several messages.

\* the branch that handled a message returned from inside "for m in msgs":
\* every branch does, except the fallback that made a task that is no order
ReturnsInLoop(h) == h.did # "create" \/ h.sent # <<>>

RECURSIVE HandleEnvelope(_, _, _, _, _)
\* the MAIN MESSAGE LOOP over msgs; sender is kept from one message to the next
HandleEnvelope(st, sg, buttons, contact, ms) ==
  LET h == HandleMsg(st, sg, buttons, contact, ms[1])
      sender == IF ms[1].from # NoSender THEN ms[1].from ELSE contact
  IN IF Len(ms) = 1 \/ ReturnsInLoop(h) THEN h
     ELSE LET r == HandleEnvelope(h.st, h.sg, buttons, sender, Tail(ms))
          IN [r EXCEPT !.sent = h.sent \o @]

WebhookEnvelope(ms, lim) ==
  /\ LET h == HandleEnvelope(Here, SENDER_GLOBAL, ENABLE_BUTTONS, NoSender, ms)
     IN /\ Commit(h.st, lim)
        /\ SENDER_GLOBAL' = h.sg
        /\ resp' = [op |-> "webhook", id |-> 0, code |-> 200, sent |-> h.sent,
                    did |-> h.did]
  /\ run' = NoRun
  /\ UNCHANGED <<now, ENABLE_BUTTONS, pc, snap, op, base, sched, entered>>

EnvelopeTexts == {T_ORDER, T_PIPE}

EnvelopeMsgs == {Msg("s1", "text", x, NoBid) : x \in EnvelopeTexts}

Envelopes ==
  UNION {[1..n -> EnvelopeMsgs] : n \in 1..MaxEnvelopeLen}

EnvelopeLim == Lim(MaxEnvelopeOps, MaxEnvelopeTasks)

EnvelopeNext == \E ms \in Envelopes : WebhookEnvelope(ms, EnvelopeLim)

EnvelopeSpec == Init /\ [][EnvelopeNext]_vars

-----------------------------------------------------------------------------
(* The digest schedulers *)

\* the users table: two field workers, one manager in another time zone, one
\* manager who is not active; tz is the offset of local time, in ticks
UserTable ==
  << [wa_id |-> "s1", role |-> "sub", active |-> TRUE, tz |-> 0],
     [wa_id |-> "s2", role |-> "sub", active |-> TRUE, tz |-> 0],
     [wa_id |-> "pm1", role |-> "pm", active |-> TRUE, tz |-> 1],
     [wa_id |-> "pm2", role |-> "pm", active |-> FALSE, tz |-> 0] >>

Recipients == {UserTable[i].wa_id : i \in DOMAIN UserTable}

\* local_now: the tick of the day and the calendar day in the user's zone
LocalTick(u, t) == (t + u.tz) % TicksPerDay
LocalDay(u, t) == (t + u.tz) \div TicksPerDay

\* the open tasks of a field worker
OpenTasksOf(tbl, who) ==
  {i \in DOMAIN tbl : tbl[i].sender = who /\ tbl[i].status = "open"}

Digest(kind, to, day, n) == [kind |-> kind, to |-> to, day |-> day, n |-> n]

\* "for sub in subs" at time t; the processing of recipient fail raises
RECURSIVE SubScan(_, _, _, _, _)
SubScan(i, tbl, t, fail, out) ==
  IF i > Len(UserTable) THEN [out |-> out, ok |-> TRUE]
  ELSE LET u == UserTable[i]
       IN IF u.role # "sub" \/ ~u.active THEN SubScan(i + 1, tbl, t, fail, out)
          ELSE IF LocalTick(u, t) # SubDigestTick
            THEN SubScan(i + 1, tbl, t, fail, out)
          ELSE IF u.wa_id = fail THEN [out |-> out, ok |-> FALSE]
          ELSE IF OpenTasksOf(tbl, u.wa_id) = {}
            THEN SubScan(i + 1, tbl, t, fail, out)
          ELSE SubScan(i + 1, tbl, t, fail,
                       Append(out, Digest("sub", u.wa_id, LocalDay(u, t),
                                          Cardinality(OpenTasksOf(tbl, u.wa_id)))))

\* "for pm in pms" at time t with the keys env set
RECURSIVE PmScan(_, _, _, _, _)
PmScan(i, env, t, fail, out) ==
  IF i > Len(UserTable) THEN [out |-> out, env |-> env, ok |-> TRUE]
  ELSE LET u == UserTable[i]
           key == <<u.wa_id, LocalDay(u, t)>>
       IN IF u.role # "pm" \/ ~u.active THEN PmScan(i + 1, env, t, fail, out)
          ELSE IF LocalTick(u, t) # PmDigestTick
            THEN PmScan(i + 1, env, t, fail, out)
          ELSE IF key \in env THEN PmScan(i + 1, env, t, fail, out)
          ELSE IF u.wa_id = fail THEN [out |-> out, env |-> env, ok |-> FALSE]
          ELSE PmScan(i + 1, env \cup {key}, t, fail,
                      Append(out, Digest("pm", u.wa_id, LocalDay(u, t), 0)))

\* one pass of "while True" in daily_digest_scheduler, then time.sleep(60)
SubLoop(fail) ==
  /\ alive["sub"]
  /\ wake["sub"] <= now
  /\ LET r == SubScan(1, tasks, now, fail, emitted)
     IN /\ Len(r.out) <= MaxDigests
        /\ emitted' = r.out
        /\ alive' = [alive EXCEPT !["sub"] = r.ok]
  /\ wake' = [wake EXCEPT !["sub"] = now + 1]
  /\ UNCHANGED <<tasks, audits, nextId, now, ENABLE_BUTTONS, SENDER_GLOBAL, resp,
                 nreq, run, pc, snap, op, base, environ, entered>>

\* one pass of "while True" in daily_pm_digest_scheduler, then time.sleep(60)
PmLoop(fail) ==
  /\ alive["pm"]
  /\ wake["pm"] <= now
  /\ LET r == PmScan(1, environ, now, fail, emitted)
     IN /\ Len(r.out) <= MaxDigests
        /\ emitted' = r.out
        /\ environ' = r.env
        /\ alive' = [alive EXCEPT !["pm"] = r.ok]
  /\ wake' = [wake EXCEPT !["pm"] = now + 1]
  /\ UNCHANGED <<tasks, audits, nextId, now, ENABLE_BUTTONS, SENDER_GLOBAL, resp,
                 nreq, run, pc, snap, op, base, entered>>

\* which recipient's processing raises in a pass, if any
Failures == Recipients \cup {NoSender}

DigestLim == Lim(MaxDigestOps, MaxTasks)

\* a minute passes
DigestElapse == now < MaxDigestClock /\ Elapse

DigestNext ==
  \/ WebhookText(Senders, {T_PIPE}, DigestLim)
  \/ \E fail \in Failures : SubLoop(fail)
  \/ \E fail \in Failures : PmLoop(fail)
  \/ DigestElapse
  \/ Restart

DigestSpec == Init /\ [][DigestNext]_vars

\* The field workers' scheduler as long as its thread runs, with passes about
\* a minute apart: the first pass is made as the thread starts, and a later
\* pass falls in the minute its sleep ends or, the work of the pass and the
\* sleep adding up to more than a minute, in the next one.
LiveLim == Lim(MaxLiveOps, MaxTasks)

LiveElapse ==
  /\ now < MaxLiveClock
  /\ 0 < wake["sub"]
  /\ now <= wake["sub"]
  /\ Elapse

LiveNext ==
  \/ WebhookText({"s1"}, {T_PIPE}, LiveLim)
  \/ SubLoop(NoSender)
  \/ LiveElapse

LiveSpec == Init /\ [][LiveNext]_vars /\ WF_vars(SubLoop(NoSender))

\* Texts with a hashtag or a change phrase, from either sender.
ClassifyTexts ==
  {T_HASH, T_HASH_URGENT, T_HASH_APPROVE, T_CHANGE_30M, T_20M, T_20M_URGENT,
   T_APPROVE_ORDER, T_REJECT_DELIVERY, T_APPROVE_UPDATE, T_FIVE}

ClassifyLim == Lim(MaxClassifyMsgs, MaxTasks)

ClassifyNext == WebhookText(Senders, ClassifyTexts, ClassifyLim)

ClassifySpec == Init /\ [][ClassifyNext]_vars

-----------------------------------------------------------------------------
(* Outbound sends *)

send_whatsapp_textRaises(net, to, body) ==
  IF to = NoSender \/ body = "" THEN [ok |-> FALSE, raised |-> FALSE]
  ELSE IF net THEN [ok |-> TRUE, raised |-> FALSE]
  ELSE [ok |-> FALSE, raised |-> TRUE]

\* send_whatsapp_text: net is whether requests.post goes through; an
\* exception of the post is caught and False returned
send_whatsapp_text(net, to, body) ==
  IF to = NoSender \/ body = "" THEN [ok |-> FALSE, raised |-> FALSE]
  ELSE IF net THEN [ok |-> TRUE, raised |-> FALSE]
  ELSE [ok |-> FALSE, raised |-> FALSE]

\* POST /webhook with one message while the network is up (net) or down: the
\* handler commits before it sends and does not read what the send returns;
\* an exception leaving a send would end the request with a 500
WebhookNet(m, net, lim) ==
  /\ LET h == HandleMsg(Here, SENDER_GLOBAL, ENABLE_BUTTONS, NoSender, m)
         r == [i \in DOMAIN h.sent |-> send_whatsapp_text(net, m.from, h.sent[i])]
     IN /\ Commit(h.st, lim)
        /\ SENDER_GLOBAL' = h.sg
        /\ resp' = [op |-> "webhook", id |-> 0,
                    code |-> IF \E i \in DOMAIN r : r[i].raised THEN 500 ELSE 200,
                    sent |-> SelectSeq(h.sent, LAMBDA b : send_whatsapp_text(net, m.from, b).ok),
                    did |-> h.did]
  /\ run' = RunAfter(m)
  /\ UNCHANGED <<now, ENABLE_BUTTONS, pc, snap, op, base, sched, entered>>

SendTexts == {T_ORDER, T_PIPE, T_STOCK}

SendLim == Lim(MaxSendMsgs, MaxTasks)

SendNext ==
  \E x \in SendTexts, net \in BOOLEAN : WebhookNet(Msg("s1", "text", x, NoBid), net, SendLim)

SendSpec == Init /\ [][SendNext]_vars

\* The buckets a scheduler pass at time t puts the open tasks of table tbl
\* in. The passes read the open tasks only to list them in a digest: no
\* ratio is computed and no bucket is filled.
PassBuckets(tbl, t) == [b \in {"overdue", "nudge_90", "nudge_80"} |-> {}]

\* Tasks with due dates next to the field workers' scheduler.
EscalationLim == Lim(MaxEscalationOps, MaxTasks)

EscalationNext ==
  \/ CreateDue(EscalationLim)
  \/ \E fail \in Failures : SubLoop(fail)
  \/ DigestElapse

EscalationSpec == Init /\ [][EscalationNext]_vars

-----------------------------------------------------------------------------
(* Two requests in flight: each reads its rows, then commits what it changed *)

ConcTexts == {T_ORDER, T_PIPE, T_FIVE}
LifecycleKinds == {"mark_done", "approve", "reject", "order_state", "revoke"}

Request(kind, id, sender, text) ==
  [kind |-> kind, id |-> id, sender |-> sender, text |-> text]

\* the requests a handler may be given
ConcOps ==
  {Request("answer", 0, "s1", x) : x \in ConcTexts}
    \cup {Request(k, i, "admin", NoText) : k \in LifecycleKinds, i \in DOMAIN tasks}

\* what the storage function assigns on the row it read
OpRow(o, t) ==
  CASE o.kind = "mark_done" -> MarkDoneRow(t, now)
    [] o.kind = "approve" -> ApproveRow(t, now)
    [] o.kind = "reject" -> RejectRow(t, TRUE, now)
    [] o.kind = "order_state" -> SetOrderStateRow(t, "approved")
    [] o.kind = "revoke" -> IF t.status \in Terminal THEN RevokeRow(t) ELSE t

OpDetails(o) ==
  CASE o.kind = "reject" -> "rework=True"
    [] o.kind = "order_state" -> "approved"
    [] OTHER -> NoneStr

\* the commit of a storage function that read the table as view
ApplyOn(st, view, o) ==
  IF o.id \notin DOMAIN view THEN st
  ELSE IF o.kind = "revoke" /\ view[o.id].status \notin Terminal THEN st
  ELSE log_audit([st EXCEPT !.tasks[o.id] = Merge(@, view[o.id], OpRow(o, view[o.id]))],
                 "admin", o.kind, o.id, OpDetails(o))

\* the same request run alone, from read to commit
SeqApply(b, o) ==
  IF o.kind = "answer"
    THEN LET h == HandleMsg(b.st, b.sg, ENABLE_BUTTONS, NoSender,
                            Msg(o.sender, "text", o.text, NoBid))
         IN [st |-> h.st, sg |-> h.sg]
    ELSE [st |-> ApplyOn(b.st, b.st.tasks, o), sg |-> b.sg]

Quiet == \A p \in Procs : pc[p] = "idle"

\* the task the awaiting query of a text handler finds, 0 for none
AwaitTarget(tbl, o) ==
  IF ~HasControlWord(o.text) /\ AwaitingIds(tbl, o.sender) # {}
    THEN NewestId(AwaitingIds(tbl, o.sender)) ELSE 0

\* a handler starts: the webhook runs its auto-fix and its awaiting query,
\* a storage function loads its row
Begin(p, o) ==
  /\ pc[p] = "idle"
  /\ LET st1 == IF o.kind = "answer" THEN AutoFix(Here) ELSE Here
     IN /\ tasks' = st1.tasks
        /\ snap' = [snap EXCEPT ![p] = st1.tasks]
        /\ op' = [op EXCEPT ![p] = IF o.kind = "answer"
                                     THEN [o EXCEPT !.id = AwaitTarget(st1.tasks, o)]
                                     ELSE o]
  /\ pc' = [pc EXCEPT ![p] = "read"]
  /\ base' = IF Quiet THEN [st |-> Here, sg |-> SENDER_GLOBAL] ELSE base
  /\ UNCHANGED <<audits, nextId, now, ENABLE_BUTTONS, SENDER_GLOBAL, resp, nreq, run, sched, entered>>

\* the handler commits and returns
Finish(p) ==
  /\ pc[p] = "read"
  /\ LET o == op[p]
         h == IF o.kind = "answer"
                THEN HandleRest(Here, snap[p], SENDER_GLOBAL, ENABLE_BUTTONS,
                                o.sender, o.text)
                ELSE Handled(ApplyOn(Here, snap[p], o), SENDER_GLOBAL, <<>>, o.kind)
     IN /\ Cardinality(DOMAIN h.st.tasks) <= MaxTasks + 1
        /\ tasks' = h.st.tasks
        /\ audits' = h.st.audits
        /\ nextId' = h.st.nextId
        /\ SENDER_GLOBAL' = h.sg
        /\ resp' = [op |-> IF o.kind = "answer" THEN "webhook" ELSE o.kind,
                    id |-> o.id, code |-> 200, sent |-> h.sent, did |-> h.did]
  /\ pc' = [pc EXCEPT ![p] = "done"]
  /\ UNCHANGED <<now, ENABLE_BUTTONS, nreq, run, snap, op, base, sched, entered>>

ConcLim == Lim(MaxConcSetup, MaxTasks - 1)

\* requests served one at a time before the two handlers start
SetupText == Quiet /\ WebhookText({"s1"}, {T_ORDER}, ConcLim)
SetupDone == Quiet /\ MarkDone(ConcLim)

ConcBegin == \E p \in Procs : \E o \in ConcOps : Begin(p, o)
ConcFinish == \E p \in Procs : Finish(p)

ConcNext ==
  \/ SetupText
  \/ SetupDone
  \/ ConcBegin
  \/ ConcFinish

ConcSpec == Init /\ [][ConcNext]_vars

-----------------------------------------------------------------------------
(* Two handlers in the fallback, statement by statement *)

\* a handler thread takes a text with a control word up to
\* "SENDER_GLOBAL = sender": the TEMP AUTO-FIX, then the assignment
SetSender(p, s, x) ==
  /\ pc[p] = "idle"
  /\ HasControlWord(x)
  /\ tasks' = AutoFix(Here).tasks
  /\ SENDER_GLOBAL' = s
  /\ op' = [op EXCEPT ![p] = [kind |-> "classify", id |-> 0, sender |-> s, text |-> x]]
  /\ pc' = [pc EXCEPT ![p] = "set"]
  /\ UNCHANGED <<audits, nextId, now, ENABLE_BUTTONS, resp, nreq, run, snap, base, sched, entered>>

\* the thread goes on: classify_message reads the global, create_task, and
\* the prompt of a new order
ClassifyCreate(p, lim) ==
  /\ pc[p] = "set"
  /\ LET o == op[p]
         cls == classify_message(OrEmpty(o.text), tasks, SENDER_GLOBAL)
         id == nextId
         st1 == create_task(Here, o.sender, OrEmpty(o.text), cls.tag, NoTime,
                            cls.order_state, cls.subtype)
         st2 == IF cls.tag = "order" /\ ~ENABLE_BUTTONS
                   /\ ~StartsWithMarker(st1.tasks[id].text, "item")
                  THEN [st1 EXCEPT !.tasks[id].text = MarkItemText(@)]
                  ELSE st1
     IN /\ Commit(st2, lim)
        /\ resp' = [op |-> "webhook", id |-> 0, code |-> 200,
                    sent |-> IF cls.tag # "order" THEN <<>>
                             ELSE IF ENABLE_BUTTONS THEN <<"checklist">>
                             ELSE <<"Item?">>,
                    did |-> "create"]
  /\ pc' = [pc EXCEPT ![p] = "idle"]
  /\ UNCHANGED <<now, ENABLE_BUTTONS, SENDER_GLOBAL, run, snap, op, base, sched, entered>>

GlobalLim == Lim(MaxGlobalMsgs, MaxTasks)

GlobalSetup == Quiet /\ WebhookText(Senders, {T_ORDER}, GlobalLim)
GlobalSet == \E p \in Procs : \E s \in Senders : SetSender(p, s, T_CHANGE_30M)
GlobalClassify == \E p \in Procs : ClassifyCreate(p, GlobalLim)

GlobalNext ==
  \/ GlobalSetup
  \/ GlobalSet
  \/ GlobalClassify

GlobalSpec == Init /\ [][GlobalNext]_vars

-----------------------------------------------------------------------------
(* Properties of the sequential system *)

\* the step is a request of this kind, just answered
Did(name) == nreq' = nreq + 1 /\ resp'.op = name

\* the audit records a step appends
NewAudits == SubSeq(audits', Len(audits) + 1, Len(audits'))

CountAudits(log, action, id) ==
  Cardinality({k \in DOMAIN log : log[k].action = action /\ log[k].ref_id = id})

\* the senders' tasks that are in an active dialogue state
ActiveOf(s) ==
  {i \in DOMAIN tasks : tasks[i].sender = s /\ DialogueState(tasks[i]) \in ActiveStates}

\* C1: in every reachable state each sender has at most one task in an active
\* dialogue state.
OneActiveDialoguePerSender ==
  \A s \in Senders : Cardinality(ActiveOf(s)) <= 1

\* C5: a task whose dialogue state is not none has tag order and a status that
\* is not terminal.
DialogueImpliesOpenOrder ==
  \A i \in DOMAIN tasks :
    DialogueState(tasks[i]) # "none" =>
      tasks[i].tag = "order" /\ tasks[i].status \notin Terminal

\* C6: every step that creates or changes a task appends exactly one audit
\* record that refers to that task.
EveryMutationAudited ==
  [][\A i \in DOMAIN tasks' :
       (i \notin DOMAIN tasks \/ tasks'[i] # tasks[i]) =>
         /\ Len(audits') = Len(audits) + 1
         /\ audits'[Len(audits')].ref_id = i]_vars

\* C7: a task with status done has completed_at set.
DoneHasCompletedAt ==
  \A i \in DOMAIN tasks :
    tasks[i].status = "done" => tasks[i].completed_at # NoTime

\* C8: revoke on a task whose status is open, in_progress or pending_approval
\* leaves the task and the audit trail unchanged and answers with an error.
RevokeNonTerminalIsError ==
  [][(/\ Did("revoke")
      /\ resp'.id \in DOMAIN tasks
      /\ tasks[resp'.id].status \in {"open", "in_progress", "pending_approval"})
     => (/\ tasks' = tasks
         /\ audits' = audits
         /\ resp'.code >= 400)]_vars

\* C9: revoke on a task with status approved, rejected or done sets status to
\* open, clears approved_at, rejected_at and completed_at, and writes exactly
\* one audit record with action revoke, which refers to the task.
RevokeFromTerminal ==
  [][(/\ Did("revoke")
      /\ resp'.id \in DOMAIN tasks
      /\ tasks[resp'.id].status \in Terminal)
     => (/\ tasks'[resp'.id].status = "open"
         /\ tasks'[resp'.id].approved_at = NoTime
         /\ tasks'[resp'.id].rejected_at = NoTime
         /\ tasks'[resp'.id].completed_at = NoTime
         /\ CountAudits(NewAudits, "revoke", resp'.id) = 1
         /\ \A k \in DOMAIN NewAudits :
              NewAudits[k].action = "revoke" => NewAudits[k].ref_id = resp'.id)]_vars

\* a task was marked done and then revoked: the trail ends with the two records
\* and the row is open again with no completion time
RevokedAfterDone ==
  /\ resp.op = "revoke"
  /\ resp.id \in DOMAIN tasks
  /\ Len(audits) >= 2
  /\ audits[Len(audits) - 1].action = "mark_done"
  /\ audits[Len(audits) - 1].ref_id = resp.id
  /\ audits[Len(audits)].action = "revoke"
  /\ audits[Len(audits)].ref_id = resp.id
  /\ tasks[resp.id].status = "open"
  /\ tasks[resp.id].completed_at = NoTime

\* C10: mark_done on a task whose status is already done does not change its
\* completed_at or overrun_days and writes no further mark_done audit record.
MarkDoneOnDoneIsNoOp ==
  [][(/\ Did("mark_done")
      /\ resp'.id \in DOMAIN tasks
      /\ tasks[resp'.id].status = "done")
     => (/\ tasks'[resp'.id].completed_at = tasks[resp'.id].completed_at
         /\ tasks'[resp'.id].overrun_days = tasks[resp'.id].overrun_days
         /\ CountAudits(NewAudits, "mark_done", resp'.id) = 0)]_vars

\* C2: once five consecutive non-control answers of one sender have followed a
\* task in awaiting_item, that task is captured with status pending_approval
\* and its five stored fields are the five texts as entered, in that order.
FiveAnswersCaptured ==
  Len(run.answers) = 5 =>
    \A i \in run.tids :
      /\ DialogueState(tasks[i]) = "captured"
      /\ tasks[i].status = "pending_approval"
      /\ \A k \in 1..5 : <<FieldsGet(tasks[i].text, <<FieldKeys[k]>>)>> = run.answers[k]

-----------------------------------------------------------------------------
(* Properties of two requests in flight *)

BothDone == \A p \in Procs : pc[p] = "done"

BothAnswers == BothDone /\ \A p \in Procs : op[p].kind = "answer"

StateIndex(d) ==
  CASE d = "awaiting_item" -> 1
    [] d = "awaiting_quantity" -> 2
    [] d = "awaiting_supplier" -> 3
    [] d = "awaiting_delivery_date" -> 4
    [] OTHER -> 0

\* the row holds answer a in field j and answer b in field j + 1
StoredInOrder(t, j, a, b) ==
  /\ <<FieldsGet(t.text, <<FieldKeys[j]>>)>> = a
  /\ <<FieldsGet(t.text, <<FieldKeys[j + 1]>>)>> = b

\* both handlers answered the step the same task was waiting at: each answer
\* is in a field of its own
NoAnswerLost ==
  (/\ BothAnswers
   /\ op["p1"].id = op["p2"].id
   /\ op["p1"].id \in DOMAIN base.st.tasks
   /\ StateIndex(DialogueState(base.st.tasks[op["p1"].id])) > 0)
  => LET t == tasks[op["p1"].id]
         j == StateIndex(DialogueState(base.st.tasks[op["p1"].id]))
     IN \/ StoredInOrder(t, j, op["p1"].text, op["p2"].text)
        \/ StoredInOrder(t, j, op["p2"].text, op["p1"].text)

\* the tasks made since the handlers began that are in an active dialogue state
NewDialogues ==
  {i \in DOMAIN tasks \ DOMAIN base.st.tasks :
     DialogueState(tasks[i]) \in ActiveStates}

AtMostOneNewDialogue == BothAnswers => Cardinality(NewDialogues) <= 1

\* C3: in every interleaving of two webhook handlers for one sender, each
\* answer is stored in a field of its own and at most one new dialogue is opened.
HandlersDoNotCollide == NoAnswerLost /\ AtMostOneNewDialogue

\* the row of task id after the two requests ran one after the other
SerialRow(first, second, id) ==
  SeqApply(SeqApply(base, op[first]), op[second]).st.tasks[id]

\* C4: when two concurrent mutations of one task have both returned, the task
\* record equals the result of applying them in one of the two sequential orders.
Linearizable ==
  (/\ BothDone
   /\ op["p1"].id = op["p2"].id
   /\ op["p1"].id \in DOMAIN base.st.tasks)
  => tasks[op["p1"].id] \in {SerialRow("p1", "p2", op["p1"].id),
                             SerialRow("p2", "p1", op["p1"].id)}

-----------------------------------------------------------------------------
(* Properties of the lifecycle operations *)

\* whole calendar days from due to at, never below 0
DaysLate(due, at) ==
  LET d == (at \div TicksPerDay) - (due \div TicksPerDay)
  IN IF d > 0 THEN d ELSE 0

\* C11: mark_done leaves overrun_days at max(0, calendar days from due_date to
\* completed_at) when due_date is set, and at 0 when no due_date is set.
MarkDoneSetsOverrun ==
  [][(Did("mark_done") /\ resp'.id \in DOMAIN tasks)
     => (/\ tasks'[resp'.id].completed_at = now
         /\ tasks'[resp'.id].overrun_days =
              IF tasks[resp'.id].due_date # NoTime
                THEN DaysLate(tasks[resp'.id].due_date, now)
                ELSE 0)]_vars

\* C12: after every step each task's order_state is unset or one of the six
\* lifecycle values, and a set_order_state request answered as invalid leaves
\* the tasks and the audit trail as they were.
OrderStateInEnum ==
  [][/\ \A i \in DOMAIN tasks' :
          tasks'[i].order_state \in ORDER_LIFECYCLE_STATES \cup {NoneStr}
     /\ (Did("order_state") /\ resp'.code = 400)
          => (tasks' = tasks /\ audits' = audits)]_vars

\* C13: after every step a task with a tag other than order has no
\* order_state, and set_order_state on such a task does not change it.
OrderStateOnlyOnOrders ==
  [][/\ \A i \in DOMAIN tasks' :
          tasks'[i].tag # "order" => tasks'[i].order_state = NoneStr
     /\ (/\ Did("order_state")
         /\ resp'.id \in DOMAIN tasks
         /\ tasks[resp'.id].tag # "order")
          => tasks'[resp'.id] = tasks[resp'.id]]_vars

LifecycleOps == {"mark_done", "approve", "reject", "order_state", "revoke"}

\* C14: a lifecycle operation called with an unknown task id answers not found
\* (an order_state request with a value outside the enum is answered invalid
\* before the lookup), changes no task and writes no audit record.
UnknownIdIsNotFound ==
  [][(/\ nreq' = nreq + 1
      /\ resp'.op \in LifecycleOps
      /\ resp'.id \notin DOMAIN tasks)
     => (/\ tasks' = tasks
         /\ audits' = audits
         /\ \/ resp'.code = 404
            \/ resp'.op = "order_state" /\ resp'.code = 400)]_vars

\* a revoke of an id no task has was answered not found, with tasks in the table
UnknownRevokeAnswered ==
  /\ resp.op = "revoke"
  /\ resp.code = 404
  /\ resp.id \notin DOMAIN tasks
  /\ DOMAIN tasks # {}
  /\ audits # <<>>

\* C15: create makes one new task with status open and writes exactly one
\* audit record, with action create and the new task's id; every other task
\* is as it was.
CreateMakesOneOpenTask ==
  [][Did("create_task")
     => (/\ resp'.id \notin DOMAIN tasks
         /\ DOMAIN tasks' = DOMAIN tasks \cup {resp'.id}
         /\ tasks'[resp'.id].status = "open"
         /\ Len(NewAudits) = 1
         /\ NewAudits[1].action = "create"
         /\ NewAudits[1].ref_id = resp'.id
         /\ \A i \in DOMAIN tasks : tasks'[i] = tasks[i])]_vars

\* a task was created next to tasks that were already there, one of them done
CreatedNextToOthers ==
  /\ resp.op = "create_task"
  /\ resp.id \in DOMAIN tasks
  /\ tasks[resp.id].status = "open"
  /\ audits[Len(audits)].action = "create"
  /\ audits[Len(audits)].ref_id = resp.id
  /\ \E i \in DOMAIN tasks : i # resp.id /\ tasks[i].status = "done"

\* the steps of POST /admin/approve and POST /admin/reject with given inputs
ApproveStep(id, note) ==
  /\ Did("approve")
  /\ resp'.id = id
  /\ audits' = (IF note THEN log_audit(approve_task(Here, id, "admin", now), "admin",
                                       "approve_note", id, "note")
                ELSE approve_task(Here, id, "admin", now)).audits

RejectStep(id, rework) ==
  /\ Did("reject")
  /\ resp'.id = id
  /\ audits' = reject_task(Here, id, rework, "admin", now).audits

\* C16: approve sets status approved and approved_at; reject sets status
\* rejected, rejected_at and is_rework to the flag given; each writes one audit
\* record of its action for the task, and the reject record carries the flag.
ApproveRejectSetFields ==
  [][\A id \in DOMAIN tasks :
       /\ (\E note \in BOOLEAN : ApproveStep(id, note))
            => (/\ tasks'[id].status = "approved"
                /\ tasks'[id].approved_at = now
                /\ CountAudits(NewAudits, "approve", id) = 1)
       /\ \A rework \in BOOLEAN :
            RejectStep(id, rework)
              => (/\ tasks'[id].status = "rejected"
                  /\ tasks'[id].rejected_at = now
                  /\ tasks'[id].is_rework = rework
                  /\ CountAudits(NewAudits, "reject", id) = 1
                  /\ Len(NewAudits) = 1
                  /\ NewAudits[1].details =
                       (IF rework THEN "rework=True" ELSE "rework=False"))]_vars

\* a task was approved and then rejected for rework
RejectedAfterApprove ==
  /\ resp.op = "reject"
  /\ resp.id \in DOMAIN tasks
  /\ tasks[resp.id].status = "rejected"
  /\ tasks[resp.id].is_rework
  /\ tasks[resp.id].approved_at # NoTime
  /\ tasks[resp.id].rejected_at # NoTime
  /\ Len(audits) >= 2
  /\ audits[Len(audits) - 1].action = "approve"
  /\ audits[Len(audits)].action = "reject"
  /\ audits[Len(audits)].details = "rework=True"

-----------------------------------------------------------------------------
(* Properties of the dialogue *)

\* the store after the step
There == Store(tasks', audits', nextId')

\* the step handles this text message of sender s
TextStep(s, x, lim) == Webhook(Msg(s, "text", x, NoBid), lim)

\* after the step, a text y of sender s is taken as the answer task i waited
\* for before the step
NextAnswers(s, i, y) ==
  LET h == HandleMsg(There, SENDER_GLOBAL', ENABLE_BUTTONS, NoSender,
                     Msg(s, "text", y, NoBid))
  IN /\ h.did = "await"
     /\ h.st.tasks[i] = AwaitStep(tasks[i], Strip(y)).row

\* sender s has one awaiting task, i, and it is in an order dialogue state
OpenDialogue(s, i) ==
  /\ AwaitingIds(tasks, s) = {i}
  /\ DialogueState(tasks[i]) \in ActiveStates

\* C17: a message with a control word from a sender with an open dialogue
\* leaves the dialogue task as it was, and the sender's next message without
\* a control word is taken as the answer for that same dialogue state.
ControlWordBypasses ==
  [][\A x \in BypassTexts : \A i \in DOMAIN tasks :
       (/\ HasControlWord(x)
        /\ OpenDialogue("s1", i)
        /\ TextStep("s1", x, BypassLim))
       => (/\ tasks'[i] = tasks[i]
           /\ \A y \in {T_PIPE, T_ORDER} : NextAnswers("s1", i, y))]_vars

\* the tasks of sender s in table tbl that are in an active dialogue state
ActiveIn(tbl, s) ==
  {i \in DOMAIN tbl : tbl[i].sender = s /\ DialogueState(tbl[i]) \in ActiveStates}

\* text x is one the classifier takes for an order
OrderTriggering(x) == classify_message(OrEmpty(x), tasks, "s1").tag = "order"

\* C18: when a sender with one task in an active dialogue state sends another
\* order-triggering text, the sender has exactly one task in an active
\* dialogue state after the message.
NoSecondDialogue ==
  [][\A x \in InTexts :
       (/\ OrderTriggering(x)
        /\ Cardinality(ActiveIn(tasks, "s1")) = 1
        /\ TextStep("s1", x, SpecLim))
       => Cardinality(ActiveIn(tasks', "s1")) = 1]_vars

\* what the webhook does with message m on store st with global sg: the table it
\* leaves, what it sends and the branch it takes
Outcome(st, sg, m) ==
  LET h == HandleMsg(st, sg, ENABLE_BUTTONS, NoSender, m)
  IN [st |-> h.st, sent |-> h.sent, did |-> h.did]

\* C19: a restart between two messages changes no task row, hence no dialogue
\* state and no captured field, and every next message is handled exactly as
\* it would have been without the restart.
RestartKeepsDialogue ==
  [][Restart =>
       /\ tasks' = tasks
       /\ \A s \in Senders : \A y \in RestartTexts :
            Outcome(There, SENDER_GLOBAL', Msg(s, "text", y, NoBid))
              = Outcome(Here, SENDER_GLOBAL, Msg(s, "text", y, NoBid))]_vars

\* a restart has happened while s1 had answered the first question of a dialogue
RestartedMidDialogue ==
  /\ SENDER_GLOBAL = NoSender
  /\ \E i \in DOMAIN tasks :
       /\ tasks[i].sender = "s1"
       /\ DialogueState(tasks[i]) = "awaiting_quantity"
       /\ FieldsGet(tasks[i].text, <<FieldKeys[1]>>) # <<>>

\* the dialogue state that waits for the field of a button
AwaitingOf(flag) ==
  CASE flag = "item" -> "awaiting_item"
    [] flag = "quantity" -> "awaiting_quantity"
    [] flag = "supplier" -> "awaiting_supplier"
    [] flag = "delivery_date" -> "awaiting_delivery_date"
    [] flag = "drop_location" -> "awaiting_drop_location"

ButtonStep(s, k, tid, lim) ==
  Webhook(Msg(s, "interactive", NoText, [kind |-> k, tid |-> tid]), lim)

\* C20: a button reply order_<field>:<task_id> for an existing task puts that
\* task into awaiting_<field>; no task is created, no other row changes, and
\* the classifier branch is not taken.
ButtonSetsAwaiting ==
  [][\A s \in Senders : \A k \in OrderFlags : \A tid \in DOMAIN tasks :
       ButtonStep(s, k, tid, ButtonLim)
       => /\ DialogueState(tasks'[tid]) = AwaitingOf(k)
          /\ DOMAIN tasks' = DOMAIN tasks
          /\ nextId' = nextId
          /\ \A j \in DOMAIN tasks \ {tid} : tasks'[j] = tasks[j]
          /\ resp'.did = "button"
          /\ SENDER_GLOBAL' = SENDER_GLOBAL]_vars

\* a button has just put a task of s1 into the last dialogue state
ButtonMarkedDropLocation ==
  /\ resp.did = "button"
  /\ resp.sent = <<ButtonPrompt("drop_location")>>
  /\ \E i \in DOMAIN tasks :
       /\ tasks[i].sender = "s1"
       /\ DialogueState(tasks[i]) = "awaiting_drop_location"

-----------------------------------------------------------------------------
(* Properties of messages the webhook has no use for *)

\* C21: an interactive reply that is not order_<field>:<task_id> of an
\* existing task (another prefix, or an id no task has) creates no task and
\* changes no task.
UnknownButtonIgnored ==
  [][\A s \in Senders : \A k \in ButtonKinds : \A tid \in TaskIdInputs :
       (/\ k \notin OrderFlags \/ tid \notin DOMAIN tasks
        /\ ButtonStep(s, k, tid, ButtonLim))
       => tasks' = tasks]_vars

\* C22: a message with no text and no caption creates no task and changes no
\* task.
NoTextIsDropped ==
  [][\A s \in Senders :
       Webhook(Msg(s, "location", NoText, NoBid), SpecLim) => tasks' = tasks]_vars

-----------------------------------------------------------------------------
(* Properties of the digest schedulers *)

\* the digests sent to recipient who for local calendar day d
DigestsFor(who, d) ==
  {i \in DOMAIN emitted : emitted[i].to = who /\ emitted[i].day = d}

\* C23: no recipient is sent more than one digest for one calendar day of
\* the recipient's time zone.
DigestOncePerDay ==
  \A i \in DOMAIN emitted :
    Cardinality(DigestsFor(emitted[i].to, emitted[i].day)) <= 1

\* the digests a step adds
NewDigests == {emitted'[i] : i \in DOMAIN emitted' \ DOMAIN emitted}

\* C24: a recipient with no relevant open task is sent no digest: a field
\* worker's digest needs an open task of that worker, a manager's digest needs
\* at least an open task in the table.
NoDigestWithoutTasks ==
  [][\A d \in NewDigests :
       IF d.kind = "sub" THEN OpenTasksOf(tasks, d.to) # {}
       ELSE \E i \in DOMAIN tasks : tasks[i].status = "open"]_vars

\* recipient u is due a digest of the given kind at the present tick
SubDue(u) ==
  /\ u.role = "sub" /\ u.active
  /\ LocalTick(u, now) = SubDigestTick
  /\ OpenTasksOf(tasks, u.wa_id) # {}

PmDue(u) ==
  /\ u.role = "pm" /\ u.active
  /\ LocalTick(u, now) = PmDigestTick
  /\ <<u.wa_id, LocalDay(u, now)>> \notin environ

\* C25: when the processing of one recipient fails in a pass, every other
\* recipient that is due in that pass is still sent its digest and the thread
\* goes on running.
DigestFailureIsolated ==
  [][\A fail \in Recipients :
       /\ SubLoop(fail)
          => /\ alive'["sub"]
             /\ \A i \in DOMAIN UserTable :
                  (SubDue(UserTable[i]) /\ UserTable[i].wa_id # fail)
                  => \E d \in NewDigests : d.to = UserTable[i].wa_id
       /\ PmLoop(fail)
          => /\ alive'["pm"]
             /\ \A i \in DOMAIN UserTable :
                  (PmDue(UserTable[i]) /\ UserTable[i].wa_id # fail)
                  => \E d \in NewDigests : d.to = UserTable[i].wa_id]_vars

-----------------------------------------------------------------------------
(* Properties of the escalation of tasks with a due date *)

\* the buckets task i is in after a pass at time t over table tbl
BucketsOf(tbl, t, i) == {b \in DOMAIN PassBuckets(tbl, t) : i \in PassBuckets(tbl, t)[b]}

\* C26: on every pass each open task with a due date is in the one bucket its
\* ratio asks for; a task whose due date has come has ratio >= 1.0 whatever
\* its start, so it is in overdue and in no other bucket.
PastDueIsOverdue ==
  [][(\E fail \in Failures : SubLoop(fail))
       => \A i \in DOMAIN tasks :
            (/\ tasks[i].status = "open"
             /\ tasks[i].due_date # NoTime
             /\ tasks[i].due_date <= now)
            => BucketsOf(tasks, now, i) = {"overdue"}]_vars

\* create_task with due date due, through the API
CreateDueStep(due) ==
  Api(create_task(Here, "s1", T_PIPE, "task", due, NoneStr, "assigned"),
      "create_task", nextId, 200, EscalationLim)

\* C27: a task created with a due date at or before its creation time is in
\* the overdue bucket on every pass from then on.
DegenerateWindowIsOverdue ==
  [][\A due \in 0..MaxDue :
       (due <= now /\ CreateDueStep(due))
       => \A t \in now..MaxDigestClock :
            BucketsOf(tasks', t, nextId) = {"overdue"}]_vars

-----------------------------------------------------------------------------
(* Properties of outbound sends *)

-----------------------------------------------------------------------------
(* Properties of the classifier *)

\* "#order" in text
HasHashOrder(x) == ContainsPhrase(x, <<"#", "order">>)

\* C29: a text that contains #order is classified as an order whatever else
\* it contains: the task the fallback creates for it has tag order.
HashOrderIsOrder ==
  [][\A s \in Senders : \A x \in ClassifyTexts :
       (/\ HasHashOrder(x)
        /\ TextStep(s, x, ClassifyLim)
        /\ resp'.did = "create")
       => /\ classify_message(x, tasks, s).tag = "order"
          /\ tasks'[nextId].tag = "order"]_vars

\* C30: a text with a change phrase is classified as change exactly when the
\* sender of that message has an open task with tag order, and as task
\* otherwise.
ChangeNeedsOwnOpenOrder ==
  [][\A p \in Procs :
       ClassifyCreate(p, GlobalLim)
       => /\ tasks'[nextId].tag = "change" <=> HasOpenOrder(tasks, op[p].sender)
          /\ tasks'[nextId].tag \in {"change", "task"}]_vars

\* a number next to a unit word in text
HasQuantityUnit(x) == \E i \in 1..Len(x) : \E k \in 1..Len(x[i]) : x[i][k] = "20m"

\* C31: a text with a number next to a unit word and no prefix is classified
\* as an order, also when it holds an urgency keyword.
QuantityUnitIsOrder ==
  [][\A s \in Senders : \A x \in ClassifyTexts :
       (/\ HasQuantityUnit(x)
        /\ ~(\E p \in ChangePhrases : ContainsPhrase(x, p))
        /\ TextStep(s, x, ClassifyLim)
        /\ resp'.did = "create")
       => tasks'[nextId].tag = "order"]_vars

\* the hint the control word in text x asks for
HintOf(x) ==
  IF ContainsSub(LowerText(x), "approve") THEN "approve"
  ELSE IF ContainsSub(LowerText(x), "reject") THEN "reject"
  ELSE NoneStr

\* C32: a text with approve or reject, no hashtag and no change phrase is
\* classified as task with the hint approve or reject, whatever procurement
\* or urgency words it holds; a text no rule matches is task, assigned.
ControlWordGivesHint ==
  [][\A s \in Senders : \A x \in ClassifyTexts :
       (/\ ~ContainsPhrase(x, <<"#">>)
        /\ ~(\E p \in ChangePhrases : ContainsPhrase(x, p))
        /\ TextStep(s, x, ClassifyLim)
        /\ resp'.did = "create")
       => /\ HintOf(x) # NoneStr
             => /\ tasks'[nextId].tag = "task"
                /\ tasks'[nextId].order_state = HintOf(x)
          /\ x = T_FIVE
             => /\ tasks'[nextId].tag = "task"
                /\ tasks'[nextId].subtype = "assigned"]_vars

-----------------------------------------------------------------------------
(* Properties of one dialogue step *)

SuccState(d) ==
  CASE d = "awaiting_item" -> "awaiting_quantity"
    [] d = "awaiting_quantity" -> "awaiting_supplier"
    [] d = "awaiting_supplier" -> "awaiting_delivery_date"
    [] d = "awaiting_delivery_date" -> "awaiting_drop_location"
    [] OTHER -> "captured"

\* the text holds the value, line by line, under the key
HoldsField(text, key, val) ==
  \E n \in 1..Len(text) :
    /\ text[n] = <<key, ":">> \o val[1]
    /\ \A m \in 2..Len(val) : n + m - 1 <= Len(text) /\ text[n + m - 1] = val[m]

\* every line below the marker is still there
KeepsLines(before, after) ==
  \A n \in 2..Len(before) :
    before[n] # <<>> => \E m \in 1..Len(after) : after[m] = before[n]

\* C33: a non-control text of a sender whose newest open task waits for field
\* X is stored as field X, moves the dialogue to the state after X (captured
\* and pending_approval after the drop location), leaves every field captured
\* earlier as it was, and creates no task.
AwaitStepAdvances ==
  [][\A x \in DialogueTexts : \A i \in DOMAIN tasks :
       (/\ OpenDialogue("s1", i)
        /\ ~HasControlWord(x)
        /\ TextStep("s1", x, DialogueLim))
       => LET k == FieldIndex(DialogueState(tasks[i]))
          IN /\ DOMAIN tasks' = DOMAIN tasks
             /\ DialogueState(tasks'[i]) = SuccState(DialogueState(tasks[i]))
             /\ (k = 5 => tasks'[i].status = "pending_approval")
             /\ HoldsField(tasks'[i].text, FieldKeys[k], Strip(x))
             /\ (k >= 2 => KeepsLines(tasks[i].text, tasks'[i].text))]_vars

\* C34: whenever an order task's dialogue is captured, each field the sender answered
\* holds the last text the sender entered for it, whatever buttons were
\* pressed in between.
CapturedKeepsEntered ==
  \A i \in DOMAIN tasks :
    (/\ tasks[i].tag = "order"
     /\ DialogueState(tasks[i]) = "captured"
     /\ i \in DOMAIN entered) =>
      \A k \in 1..5 :
        entered[i][k] # NoText => HoldsField(tasks[i].text, FieldKeys[k], entered[i][k])

-----------------------------------------------------------------------------
(* Properties of the rows a message may touch *)

\* the step handles a text or a button reply of sender s
MessageStep(s, lim) ==
  \/ \E x \in ButtonTexts : TextStep(s, x, lim)
  \/ \E k \in ButtonKinds, tid \in TaskIdInputs : ButtonStep(s, k, tid, lim)

\* C35: handling a message or a button reply of sender S leaves every task of
\* another sender as it was.
OnlyOwnTasksChange ==
  [][\A s \in Senders :
       MessageStep(s, ButtonLim)
       => \A i \in DOMAIN tasks : tasks[i].sender # s => tasks'[i] = tasks[i]]_vars

\* C36: when handlers of different senders overlap, the task made for a
\* message of sender A carries the classification the text gets against A's
\* own tasks, as when the message is handled alone.
ClassifiedAsAlone ==
  [][\A p \in Procs :
       ClassifyCreate(p, GlobalLim)
       => LET alone == classify_message(OrEmpty(op[p].text), tasks, op[p].sender)
          IN /\ tasks'[nextId].tag = alone.tag
             /\ tasks'[nextId].subtype = alone.subtype
             /\ tasks'[nextId].order_state = alone.order_state]_vars

-----------------------------------------------------------------------------
(* Properties of an envelope with several messages *)

RECURSIVE EachHandled(_, _, _, _, _)
\* the store after every message of ms has been handled, one after the other
EachHandled(st, sg, buttons, contact, ms) ==
  IF ms = <<>> THEN st
  ELSE LET h == HandleMsg(st, sg, buttons, contact, ms[1])
           sender == IF ms[1].from # NoSender THEN ms[1].from ELSE contact
       IN EachHandled(h.st, h.sg, buttons, sender, Tail(ms))

\* C37: every message of an envelope that has a sender and a text is
\* processed: the tasks after the request are the tasks after each message
\* has advanced a dialogue or made a task, in order.
EveryMessageProcessed ==
  [][\A ms \in Envelopes :
       WebhookEnvelope(ms, EnvelopeLim)
       => tasks' = EachHandled(Here, SENDER_GLOBAL, ENABLE_BUTTONS, NoSender, ms).tasks]_vars

-----------------------------------------------------------------------------
(* Properties of the stamps of a task that is not settled *)

\* C38: a task with status open or pending_approval has approved_at,
\* rejected_at and completed_at unset.
OpenHasNoStamps ==
  \A i \in DOMAIN tasks :
    tasks[i].status \in {"open", "pending_approval"} =>
      /\ tasks[i].approved_at = NoTime
      /\ tasks[i].rejected_at = NoTime
      /\ tasks[i].completed_at = NoTime

-----------------------------------------------------------------------------
(* Properties of the digest schedulers over time *)

\* the calendar days that are over before the clock of the specification ends
LiveDays == 0..(MaxLiveClock \div TicksPerDay - 1)

\* the due minute of day d has come for field worker u, who has an open task,
\* and the pass of this minute is still to run
SubDueOn(u, d) ==
  /\ SubDue(u)
  /\ LocalDay(u, now) = d
  /\ wake["sub"] <= now

\* C39: on every day on which an active field worker has an open task when
\* the worker's local time reaches the digest hour, the digest of that day is
\* eventually sent to the worker, the scheduler passing about once a minute.
DueDigestEmitted ==
  \A i \in DOMAIN UserTable : \A d \in LiveDays :
    [](SubDueOn(UserTable[i], d) => <>(DigestsFor(UserTable[i].wa_id, d) # {}))

=============================================================================
